---------------------------- MODULE Spec2Model ----------------------------
(***************************************************************************)
(* Model of the enhanced PDF parser (pdf_services): the Cost model, the    *)
(* figure/caption matcher, the image describer, the description splicer    *)
(* and the page loop of EnhancedPDFParser.process_pdf.                     *)
(*                                                                         *)
(* Strings are sequences of tokens.  A token is one character class or one *)
(* literal of the source: "\n" is the newline, " " a blank, "fig" a word   *)
(* of the alternation figure|fig, "table" the word table, "1" a digit and  *)
(* "x" any other character.  The Japanese literals of the source are       *)
(* written as ASCII tokens (the source text is given next to each).        *)
(***************************************************************************)
EXTENDS Integers, Sequences, FiniteSets, TLC

VARIABLES
    pc,                 \* position of process_pdf / of the unit operation
    pages_text,         \* extract_text_by_pages result
    images,             \* extract_images_and_captions()[0]
    captions,           \* extract_images_and_captions()[1]
    matches,            \* match_figures_to_captions result
    all_page_contents,  \* list built by the page loop
    total_cost,         \* accumulator of the page loop
    document,           \* value returned by process_pdf (NoDocument before)
    calls,              \* model invocations so far, in order
    page_costs,         \* cost returned by process_text_with_llm, per page
    rewritten,          \* text returned by process_text_with_llm, per page
    described,          \* per assembled page: the outcome met and the block
                        \* built for each of its images
    heap,               \* Cost objects by address (Cost unit operations)
    ret,                \* address returned by the last Cost operation
    sp_text,            \* argument text of insert_image_descriptions_in_text
    sp_images,          \* argument page_images of the same call
    sp_block,           \* the list descriptions built inside that call
    sp_out,             \* its return value
    store,              \* the image paths that exist on disk
    saved,              \* file content and paths written by save_results
    ops                 \* the Cost operations done so far

vars == <<pc, pages_text, images, captions, matches, all_page_contents,
          total_cost, document, calls, page_costs, rewritten, described, heap, ret,
          sp_text, sp_images, sp_block, sp_out, store, saved, ops>>

-----------------------------------------------------------------------------
(* Bounds of the model *)

MaxPages == 2
MaxImages == 2
MaxCaptions == 2
MaxLines == 3
MaxTok == 1
MaxCostOps == 3

-----------------------------------------------------------------------------
(* Generic helpers *)

Range(s) == {s[i] : i \in 1..Len(s)}

RECURSIVE Flatten(_)
Flatten(ss) == IF ss = <<>> THEN <<>> ELSE Head(ss) \o Flatten(Tail(ss))

\* None of Python, for a value that is otherwise a string
None == "None"
\* None of Python, for a value that is otherwise a token sequence (a path)
NonePath == <<"None">>

-----------------------------------------------------------------------------
(* str methods and regular expressions *)

\* characters \s matches
Whitespace == {" ", "\n"}
\* characters \d matches
Digits == {"1"}
\* (figure|fig), case-insensitive
FigWords == {"fig", "Figure"}
\* (table|tab), case-insensitive
TableWords == {"table", "Table"}
\* (figure|fig|table|<zu>|<hyou>), case-insensitive
RefWords == FigWords \cup TableWords

\* str.split('\n')
RECURSIVE split_lines(_)
split_lines(text) ==
    IF \A i \in 1..Len(text) : text[i] # "\n"
    THEN <<text>>
    ELSE LET k == CHOOSE i \in 1..Len(text) :
                      text[i] = "\n" /\ \A j \in 1..(i-1) : text[j] # "\n"
         IN  <<SubSeq(text, 1, k-1)>> \o split_lines(SubSeq(text, k+1, Len(text)))

\* sep.join(parts)
RECURSIVE join(_, _)
join(sep, parts) ==
    IF parts = <<>> THEN <<>>
    ELSE IF Len(parts) = 1 THEN parts[1]
    ELSE parts[1] \o sep \o join(sep, Tail(parts))

\* len(text.split()): the number of maximal runs of non-whitespace
word_count(text) ==
    Cardinality({i \in 1..Len(text) :
        /\ text[i] \notin Whitespace
        /\ (i = 1 \/ text[i-1] \in Whitespace)})

\* str.strip()
RECURSIVE lstrip(_)
lstrip(text) ==
    IF text # <<>> /\ Head(text) \in Whitespace THEN lstrip(Tail(text)) ELSE text

RECURSIVE rstrip(_)
rstrip(text) ==
    IF text # <<>> /\ text[Len(text)] \in Whitespace
    THEN rstrip(SubSeq(text, 1, Len(text)-1)) ELSE text

strip(text) == rstrip(lstrip(text))

\* the match of  words \s* \d+  that starts at position i of s, as the
\* position of its first digit (0 when there is none)
FirstDigitAfter(s, i) ==
    IF \E j \in (i+1)..Len(s) :
           s[j] \in Digits /\ \A k \in (i+1)..(j-1) : s[k] \in Whitespace
    THEN CHOOSE j \in (i+1)..Len(s) :
           s[j] \in Digits /\ \A k \in (i+1)..(j-1) : s[k] \in Whitespace
    ELSE 0

\* the greedy \d+ starting at position j
RECURSIVE DigitRun(_, _)
DigitRun(s, j) ==
    IF j <= Len(s) /\ s[j] \in Digits THEN <<s[j]>> \o DigitRun(s, j+1) ELSE <<>>

\* re.search(r'(figure|fig|table|..)\s*\d+', line, re.IGNORECASE) is not None
ref_search(line) ==
    \E i \in 1..Len(line) : line[i] \in RefWords /\ FirstDigitAfter(line, i) # 0

\* re.search(r'^(words)\s*(\d+)', s, re.IGNORECASE): group(2), or <<>> when
\* the search fails (the group is never empty when it succeeds)
anchored_number(words, s) ==
    IF s # <<>> /\ s[1] \in words /\ FirstDigitAfter(s, 1) # 0
    THEN DigitRun(s, FirstDigitAfter(s, 1))
    ELSE <<>>

-----------------------------------------------------------------------------
(* Cost: pdf_services/models/document.py *)

\* Cost(input_token, output_token)
Cost(i, o) == [input_token |-> i, output_token |-> o]

\* Cost.zero_cost
zero_cost == Cost(0, 0)

\* add_cost that forgets the output tokens of the other operand
add_cost_drops_output(self, other) ==
    [input_token |-> self.input_token + other.input_token,
     output_token |-> self.output_token]

\* Cost.add_cost, on values: the fields of the object it constructs
add_cost(self, other) ==
    Cost(self.input_token + other.input_token,
         self.output_token + other.output_token)

\* Cost.add_cost, on objects: a Cost is constructed at a fresh address and
\* returned; no field of an existing object is assigned
add_cost_obj(h, self, other) ==
    LET a == Cardinality(DOMAIN h) + 1
    IN  [heap |-> [x \in (DOMAIN h) \cup {a} |->
                      IF x = a THEN add_cost(h[self], h[other]) ELSE h[x]],
         ret  |-> a]

\* Cost.zero_cost, on objects
zero_cost_obj(h) ==
    LET a == Cardinality(DOMAIN h) + 1
    IN  [heap |-> [x \in (DOMAIN h) \cup {a} |-> IF x = a THEN zero_cost ELSE h[x]],
         ret  |-> a]

-----------------------------------------------------------------------------
(* Geometry matcher: pdf_services/utils/image_utils.py *)

RECURSIVE SumX(_)
SumX(points) == IF points = <<>> THEN 0 ELSE Head(points)[1] + SumX(Tail(points))

RECURSIVE SumY(_)
SumY(points) == IF points = <<>> THEN 0 ELSE Head(points)[2] + SumY(Tail(points))

\* find_midpoint_from_corners: the point (x/n, y/n), kept as the two sums and
\* their common divisor; (0, 0) for None and for the empty list
find_midpoint_from_corners(points) ==
    IF points = <<>>
    THEN [x |-> 0, y |-> 0, n |-> 1]
    ELSE [x |-> SumX(points), y |-> SumY(points), n |-> Len(points)]

\* center2[1] > center1[1] on two midpoints
MidYGreater(c2, c1) == c2.y * c1.n > c1.y * c2.n

\* calculate_distance: the distance between two midpoints, kept as its square
\* num/den (the square root is monotone, so < on distances is < on squares)
calculate_distance(center1, center2) ==
    [num |-> (center1.x * center2.n - center2.x * center1.n)
               * (center1.x * center2.n - center2.x * center1.n)
           + (center1.y * center2.n - center2.y * center1.n)
               * (center1.y * center2.n - center2.y * center1.n),
     den |-> (center1.n * center2.n) * (center1.n * center2.n)]

\* float('inf')
Infinity == [num |-> 1, den |-> 0]

\* d1 < d2 on distances
DistLess(d1, d2) == d1.num * d2.den < d2.num * d1.den

\* the condition of the inner loop: same page and caption midpoint below
IsCandidate(image, caption) ==
    /\ image.page_number = caption.page_number
    /\ MidYGreater(find_midpoint_from_corners(caption.coordinates),
                   find_midpoint_from_corners(image.coordinates))

\* the update of the inner loop written with <=: a later caption at the same
\* distance replaces the earlier one
IsCloser_or_equal(distance, closest_distance) ==
    ~ DistLess(closest_distance, distance)

\* the update of the inner loop: the new candidate is strictly closer
IsCloser(distance, closest_distance) == DistLess(distance, closest_distance)

\* the inner loop of match_figures_to_captions from caption k on, with
\* closest_caption kept as an index into captions (0 is None)
RECURSIVE ClosestCaption(_, _, _, _, _)
ClosestCaption(image, caps, k, closest_caption, closest_distance) ==
    IF k > Len(caps) THEN closest_caption
    ELSE LET distance ==
                 calculate_distance(find_midpoint_from_corners(image.coordinates),
                                    find_midpoint_from_corners(caps[k].coordinates))
         IN  IF IsCandidate(image, caps[k]) /\ IsCloser(distance, closest_distance)
             THEN ClosestCaption(image, caps, k+1, k, distance)
             ELSE ClosestCaption(image, caps, k+1, closest_caption, closest_distance)

\* match_figures_to_captions
match_figures_to_captions(imgs, caps) ==
    [i \in 1..Len(imgs) |->
        LET c == ClosestCaption(imgs[i], caps, 1, 0, Infinity)
        IN  IF c # 0 THEN <<imgs[i].id, caps[c].id>> ELSE <<imgs[i].id, None>>]

-----------------------------------------------------------------------------
(* Image describer: pdf_services/utils/image_utils.py *)

\* a path is the sequence of its components; its text has "/" between them
path_text(path) == join(<<"/">>, [i \in 1..Len(path) |-> <<path[i]>>])

\* os.path.basename
basename(path) == IF path = <<>> THEN <<>> ELSE <<path[Len(path)]>>

\* bool(image.get("image_path")): neither None nor the empty string
HasPath(image) == image.image_path # NonePath /\ image.image_path # <<>>

\* 'images/' in image_path
HasImagesSegment(path) == \E i \in 1..(Len(path) - 1) : path[i] = "images"

\* f"images/{image_path.split('images/')[-1]}"
FromImagesSegment(path) ==
    LET k == CHOOSE i \in 1..(Len(path) - 1) :
                 path[i] = "images" /\ \A j \in (i+1)..(Len(path) - 1) : path[j] # "images"
    IN  <<"images">> \o SubSeq(path, k + 1, Len(path))

\* the literal returned for a missing file (source: "gazou ga mitsukarimasen")
NotFoundText == <<"image not found">>

\* the literal prefix of the failure text (source: "gazou setsumei no seisei
\* ni shippai shimashita: ")
FailedPrefix == <<"image description failed: ">>

\* generate_image_description without the os.path.exists test
generate_image_description_unchecked(image_path, exists, outcome) ==
    IF outcome.kind = "ok"
    THEN [description |-> outcome.text, invoked |-> TRUE, raised |-> FALSE]
    ELSE [description |-> FailedPrefix \o outcome.text,
          invoked |-> (outcome.kind = "invoke_error"), raised |-> FALSE]

\* generate_image_description with Image.open and _encode_image before the
\* try block: their exception leaves the function
generate_image_description_open_outside_try(image_path, exists, outcome) ==
    IF ~exists
    THEN [description |-> NotFoundText, invoked |-> FALSE, raised |-> FALSE]
    ELSE IF outcome.kind = "ok"
    THEN [description |-> outcome.text, invoked |-> TRUE, raised |-> FALSE]
    ELSE [description |-> FailedPrefix \o outcome.text,
          invoked |-> (outcome.kind = "invoke_error"),
          raised |-> (outcome.kind = "load_error")]

\* generate_image_description for one call, given what the environment does
\* in it: outcome.kind is "ok" (the model answers outcome.text), "load_error"
\* (Image.open or _encode_image raises outcome.text) or "invoke_error"
\* (chain.invoke raises outcome.text).  invoked: the vision model was called;
\* raised: an exception leaves the function (the except clause takes all).
generate_image_description(image_path, exists, outcome) ==
    IF ~exists
    THEN [description |-> NotFoundText, invoked |-> FALSE, raised |-> FALSE]
    ELSE IF outcome.kind = "ok"
    THEN [description |-> outcome.text, invoked |-> TRUE, raised |-> FALSE]
    ELSE [description |-> FailedPrefix \o outcome.text,
          invoked |-> (outcome.kind = "invoke_error"), raised |-> FALSE]

\* the name and type chosen by the loop body of generate_page_image_descriptions
figure_label(image) ==
    LET default == IF HasPath(image) THEN basename(image.image_path)
                   ELSE <<"Unknown Figure">>
        fig == anchored_number(FigWords, image.text)
        tab == anchored_number(TableWords, image.text)
    IN  IF image.text # <<>> /\ fig # <<>>
        THEN [type |-> "Figure", name |-> <<"Figure", " ">> \o fig]
        ELSE IF image.text # <<>> /\ tab # <<>>
        THEN [type |-> "Table", name |-> <<"Table", " ">> \o tab]
        ELSE [type |-> "Figure", name |-> default]

\* the description of one image: empty unless the image has a path
image_description(image, st, outcome) ==
    IF HasPath(image)
    THEN generate_image_description(image.image_path, image.image_path \in st, outcome)
    ELSE [description |-> <<>>, invoked |-> FALSE, raised |-> FALSE]

\* an exception leaves generate_page_image_descriptions (and with it
\* insert_image_descriptions_in_text, _process_single_page and process_pdf,
\* none of which has a handler)
describe_raises(page_images, st, outcomes) ==
    \E i \in 1..Len(page_images) :
        image_description(page_images[i], st, outcomes[i]).raised

\* img_info of one image
img_info(image, description) ==
    LET label == figure_label(image)
    IN  <<"[", label.type, "]", " ">> \o label.name
        \o (IF strip(image.text) # <<>>
            THEN <<"\n", "[Image Text]: ">> \o strip(image.text) ELSE <<>>)
        \o (IF HasPath(image)
            THEN <<"\n", "[Image Path]: ">>
                 \o path_text(IF HasImagesSegment(image.image_path)
                              THEN FromImagesSegment(image.image_path)
                              ELSE image.image_path)
            ELSE <<>>)
        \o (IF description # <<>>
            THEN <<"\n", "[Description]: ">> \o description ELSE <<>>)

\* the list descriptions built by generate_page_image_descriptions
page_descriptions(page_images, st, outcomes) ==
    [i \in 1..Len(page_images) |->
        img_info(page_images[i],
                 image_description(page_images[i], st, outcomes[i]).description)]

\* generate_page_image_descriptions: "" or the blocks joined by a blank line
generate_page_image_descriptions(page_images, st, outcomes) ==
    IF page_images = <<>> THEN <<>>
    ELSE join(<<"\n", "\n">>, page_descriptions(page_images, st, outcomes))

\* the vision-model invocations made from the last image to the first
RECURSIVE vision_calls_reversed(_, _, _)
vision_calls_reversed(page_images, st, outcomes) ==
    IF page_images = <<>> THEN <<>>
    ELSE vision_calls_reversed(Tail(page_images), st, Tail(outcomes))
         \o (IF image_description(Head(page_images), st, Head(outcomes)).invoked
             THEN <<[model |-> "vision", id |-> Head(page_images).id]>> ELSE <<>>)

\* the vision-model invocations generate_page_image_descriptions makes, in order
RECURSIVE vision_calls(_, _, _)
vision_calls(page_images, st, outcomes) ==
    IF page_images = <<>> THEN <<>>
    ELSE (IF image_description(Head(page_images), st, Head(outcomes)).invoked
          THEN <<[model |-> "vision", id |-> Head(page_images).id]>> ELSE <<>>)
         \o vision_calls(Tail(page_images), st, Tail(outcomes))

-----------------------------------------------------------------------------
(* Description splicer: pdf_services/utils/image_utils.py *)

\* the heading of the fallback
ImagesHeading == "--- Images ---"

\* the loop body appending the block without the blank lines around it
spliced_line_unpadded(line, image_descriptions) ==
    IF ref_search(line) THEN <<line, image_descriptions>> ELSE <<line>>

\* what the while loop appends for one line
spliced_line(line, image_descriptions) ==
    IF ref_search(line)
    THEN <<line, <<"\n">> \o image_descriptions \o <<"\n">>>>
    ELSE <<line>>

\* the fallback condition looking at the first line only
no_reference_first_line(lines) == ~ ref_search(lines[1])

\* the condition of the fallback: no line of the text has a reference
no_reference(lines) == ~ \E i \in 1..Len(lines) : ref_search(lines[i])

\* what is appended after the loop
fallback_lines(lines, image_descriptions) ==
    IF no_reference(lines)
    THEN <<<<"\n", ImagesHeading, "\n">> \o image_descriptions>>
    ELSE <<>>

\* insert_image_descriptions_in_text from lines = text.split on, given the
\* image_descriptions computed by generate_page_image_descriptions
splice(text, image_descriptions) ==
    LET lines == split_lines(text)
        enhanced_lines ==
            Flatten([i \in 1..Len(lines) |-> spliced_line(lines[i], image_descriptions)])
            \o fallback_lines(lines, image_descriptions)
    IN  join(<<"\n">>, enhanced_lines)

\* insert_image_descriptions_in_text
insert_image_descriptions_in_text(text, page_images, st, outcomes) ==
    IF page_images = <<>> THEN text
    ELSE splice(text, generate_page_image_descriptions(page_images, st, outcomes))

-----------------------------------------------------------------------------
(* Text rewriter: pdf_services/utils/text_utils.py *)

\* int(len(text.split()) * 1.3)
estimate_tokens(text) == (13 * word_count(text)) \div 10

\* process_text_with_llm, given the content of the model's response
process_text_with_llm(text, response) ==
    [content |-> response,
     cost    |-> Cost(estimate_tokens(text), estimate_tokens(response))]

-----------------------------------------------------------------------------
(* Page processor and document assembler: pdf_parser/enhanced_parser.py *)

\* the images of the page that the matcher paired with a caption
images_of_page_matched_only(imgs, page_num) ==
    LET OnPage(img) ==
            /\ img.page_number = page_num
            /\ \E m \in 1..Len(matches) : matches[m][1] = img.id /\ matches[m][2] # None
    IN  SelectSeq(imgs, OnPage)

\* [img for img in images if img["page_number"] == page_num]
images_of_page(imgs, page_num) ==
    LET OnPage(img) == img.page_number = page_num
    IN  SelectSeq(imgs, OnPage)

\* _process_single_page returning the raw page text for a page without images
process_single_page_raw(page_text, page_images, st, response, outcomes) ==
    LET r == process_text_with_llm(page_text, response)
    IN  [content |-> IF page_images # <<>>
                     THEN insert_image_descriptions_in_text(r.content, page_images,
                                                            st, outcomes)
                     ELSE page_text,
         cost    |-> r.cost,
         calls   |-> IF page_images # <<>>
                     THEN vision_calls(page_images, st, outcomes) ELSE <<>>]

\* _process_single_page charging one token pair for every vision-model call
process_single_page_vision_cost(page_text, page_images, st, response, outcomes) ==
    LET r == process_text_with_llm(page_text, response)
        n == IF page_images # <<>>
             THEN Len(vision_calls(page_images, st, outcomes)) ELSE 0
    IN  [content |-> IF page_images # <<>>
                     THEN insert_image_descriptions_in_text(r.content, page_images,
                                                            st, outcomes)
                     ELSE r.content,
         cost    |-> [input_token |-> r.cost.input_token + n,
                      output_token |-> r.cost.output_token + n],
         calls   |-> IF page_images # <<>>
                     THEN vision_calls(page_images, st, outcomes) ELSE <<>>]

\* _process_single_page, given the response of the language model and what
\* the environment does in each image description
process_single_page(page_text, page_images, st, response, outcomes) ==
    LET r == process_text_with_llm(page_text, response)
    IN  [content |-> IF page_images # <<>>
                     THEN insert_image_descriptions_in_text(r.content, page_images,
                                                            st, outcomes)
                     ELSE r.content,
         cost    |-> r.cost,
         calls   |-> IF page_images # <<>>
                     THEN vision_calls(page_images, st, outcomes) ELSE <<>>]

\* PageContents numbered from 0
PageContents_zero_based(contents, page_number, page_images) ==
    [contents |-> contents, page_number |-> page_number - 1, images |-> page_images]

\* PageContents(contents, page_number, images)
PageContents(contents, page_number, page_images) ==
    [contents |-> contents, page_number |-> page_number, images |-> page_images]

\* Document(contents, cost)
Document(contents, cost) == [contents |-> contents, cost |-> cost]

\* str(n) of a positive integer
DigitChars == <<"0", "1", "2", "3", "4", "5", "6", "7", "8", "9">>

RECURSIVE int_str(_)
int_str(n) ==
    IF n < 10 THEN <<DigitChars[n + 1]>>
    ELSE int_str(n \div 10) \o <<DigitChars[(n % 10) + 1]>>

\* all_content without the "" after the contents of each page
RECURSIVE all_content_no_separator(_)
all_content_no_separator(contents) ==
    IF contents = <<>> THEN <<>>
    ELSE << <<"=== Page ">> \o int_str(Head(contents).page_number) \o <<" ===">>,
            Head(contents).contents >>
         \o all_content_no_separator(Tail(contents))

\* all_content of save_results: heading, contents and "" for each page
RECURSIVE all_content(_)
all_content(contents) ==
    IF contents = <<>> THEN <<>>
    ELSE << <<"=== Page ">> \o int_str(Head(contents).page_number) \o <<" ===">>,
            Head(contents).contents,
            <<>> >>
         \o all_content(Tail(contents))

\* save_results: the text written and the dict returned
save_results(doc, output_dir) ==
    [written    |-> join(<<"\n">>, all_content(doc.contents)),
     text_file  |-> output_dir \o <<"enhanced_processed_text.txt">>,
     images_dir |-> output_dir \o <<"images">>]

-----------------------------------------------------------------------------
(* Inputs *)

\* element ids of the partitioner, by position in its output
ImageIds == <<"img1", "img2", "img3", "img4">>
CaptionIds == <<"cap1", "cap2", "cap3", "cap4">>

\* image files: one written by the partitioner, one that is not on disk
ExistingPath == <<"out", "images", "a.jpg">>
MissingPath == <<"out", "images", "b.jpg">>

\* bounding polygons: none (midpoint (0,0)), two single points of the row
\* y = 1, and an edge of the row y = 0 (midpoint (1/2, 0))
Polygons ==
    { <<>>, << <<0, 1>> >>, << <<1, 1>> >>, << <<0, 0>>, <<1, 0>> >> }

\* the fields of an image other than id and page: without a file, with a
\* file that is missing, with a file that exists
ImageKinds ==
    { [coordinates |-> <<>>, image_path |-> NonePath, text |-> <<"fig", " ", "1">>],
      [coordinates |-> << <<0, 1>> >>, image_path |-> MissingPath, text |-> <<" ">>],
      [coordinates |-> <<>>, image_path |-> ExistingPath,
       text |-> <<"table", "1", "\n", "x">>] }

\* images of the matcher's unit operation: any polygon
GeometryKinds ==
    { [coordinates |-> p, image_path |-> NonePath, text |-> <<>>] : p \in Polygons }

Image(i, page, kind) ==
    [id |-> ImageIds[i], page_number |-> page, coordinates |-> kind.coordinates,
     image_path |-> kind.image_path, text |-> kind.text, category |-> "Image"]

Caption(i, page, polygon) ==
    [id |-> CaptionIds[i], page_number |-> page, coordinates |-> polygon,
     text |-> <<"fig", " ", "1">>, category |-> "FigureCaption"]

\* lists of at most n images on pages 1..np
ImageLists(n, np, kinds) ==
    UNION { { [i \in 1..k |-> Image(i, f[i][1], f[i][2])] :
                f \in [1..k -> (1..np) \X kinds] } : k \in 0..n }

CaptionLists(n, np, polygons) ==
    UNION { { [i \in 1..k |-> Caption(i, f[i][1], f[i][2])] :
                f \in [1..k -> (1..np) \X polygons] } : k \in 0..n }

\* the partitioner emits the elements of a document in page order
PageOrdered(els) ==
    \A i, j \in 1..Len(els) : i < j => els[i].page_number <= els[j].page_number

\* raw page texts (0 and 2 words)
RawTexts == { <<>>, <<"x", " ", "x">> }

\* the texts of n pages: the two raw texts in turn, starting with either
PageTexts(n) ==
    { [i \in 1..n |-> IF i % 2 = 1 THEN t[1] ELSE t[2]] :
        t \in {u \in RawTexts \X RawTexts : u[1] # u[2]} }

\* responses of the language model: without and with (two) reference lines
Responses ==
    { <<"x", " ", "x", " ", "x">>,
      <<"table", " ", "1", "\n", "x", "\n", "fig", "1", "x">> }

\* lines of the texts given to the splicer
LinePool ==
    { <<>>, <<"x">>, <<"fig", "1">>, <<"x", "table", " ", "1", "x">>, <<"fig", " ", "x">> }

SpliceTexts ==
    UNION { { join(<<"\n">>, ls) : ls \in [1..k -> LinePool] } : k \in 1..MaxLines }

\* what the environment does in one image description
Outcomes ==
    { [kind |-> "ok", text |-> <<"d", "\n", "d">>],
      [kind |-> "load_error", text |-> <<"e">>],
      [kind |-> "invoke_error", text |-> <<"e">>] }

DefaultOutcome == [kind |-> "ok", text |-> <<"d", "\n", "d">>]

\* one outcome per image; fixed where generate_image_description gets no
\* further than os.path.exists
OutcomeLists(page_images, st) ==
    { f \in [1..Len(page_images) -> Outcomes] :
        \A i \in 1..Len(page_images) :
            ~(HasPath(page_images[i]) /\ page_images[i].image_path \in st)
                => f[i] = DefaultOutcome }

CostValues == { Cost(i, o) : i \in 0..MaxTok, o \in 0..MaxTok }

OutputDir == <<"out">>

-----------------------------------------------------------------------------
(* Initial states: the idle value of every group of variables *)

PipelineIdle ==
    /\ pages_text = <<>>
    /\ all_page_contents = <<>>
    /\ total_cost = zero_cost
    /\ document = <<>>
    /\ page_costs = <<>>
    /\ rewritten = <<>>
    /\ described = <<>>
    /\ saved = <<>>

MatchIdle == images = <<>> /\ captions = <<>> /\ matches = <<>>

CostIdle == heap = <<>> /\ ret = 0 /\ ops = <<>>

SpliceIdle == sp_text = <<>> /\ sp_images = <<>> /\ sp_block = <<>> /\ sp_out = <<>>

pipeline_vars == <<pages_text, all_page_contents, total_cost, document,
                   page_costs, rewritten, described, saved>>
match_vars == <<images, captions, matches>>
cost_vars == <<heap, ret, ops>>
splice_vars == <<sp_text, sp_images, sp_block, sp_out>>

-----------------------------------------------------------------------------
(* process_pdf and save_results *)

\* before process_pdf: the PDF has n pages, its images lie on them in page
\* order and its captions on the first page
Init ==
    /\ pc = "start"
    /\ \E n \in 0..MaxPages :
          /\ pages_text \in PageTexts(n)
          /\ images \in {l \in ImageLists(MaxImages, n, ImageKinds) : PageOrdered(l)}
          /\ captions \in CaptionLists(MaxCaptions, IF n = 0 THEN 0 ELSE 1,
                                       {<< <<0, 1>> >>})
    /\ store = {ExistingPath}
    /\ matches = <<>>
    /\ all_page_contents = <<>>
    /\ total_cost = zero_cost
    /\ document = <<>>
    /\ calls = <<>>
    /\ page_costs = <<>>
    /\ rewritten = <<>>
    /\ described = <<>>
    /\ saved = <<>>
    /\ CostIdle
    /\ SpliceIdle

\* process_pdf up to the page loop
StartProcessing ==
    /\ pc = "start"
    /\ matches' = match_figures_to_captions(images, captions)
    /\ all_page_contents' = <<>>
    /\ total_cost' = zero_cost
    /\ pc' = "pages"
    /\ UNCHANGED <<pages_text, images, captions, document, calls, page_costs,
                   rewritten, described, saved, store, cost_vars, splice_vars>>

\* one iteration of the page loop in which the language model answers; the
\* iteration ends process_pdf when an exception leaves the image descriptions
ProcessPage ==
    /\ pc = "pages"
    /\ Len(all_page_contents) < Len(pages_text)
    /\ LET page_num == Len(all_page_contents) + 1
           page_images == images_of_page(images, page_num)
       IN  \E response \in Responses :
           \E outcomes \in OutcomeLists(page_images, store) :
              LET r == process_single_page(pages_text[page_num], page_images,
                                           store, response, outcomes)
                  raised == describe_raises(page_images, store, outcomes)
                  blocks == page_descriptions(page_images, store, outcomes)
              IN  /\ pc' = IF raised THEN "failed" ELSE pc
                  /\ all_page_contents' =
                        IF raised THEN all_page_contents
                        ELSE Append(all_page_contents,
                                    PageContents(r.content, page_num, page_images))
                  /\ total_cost' = IF raised THEN total_cost
                                   ELSE add_cost(total_cost, r.cost)
                  /\ calls' = calls
                        \o <<[model |-> "chat", page |-> page_num, id |-> None]>>
                        \o [i \in 1..Len(r.calls) |->
                              [model |-> "vision", page |-> page_num, id |-> r.calls[i].id]]
                  /\ page_costs' = Append(page_costs,
                        process_text_with_llm(pages_text[page_num], response).cost)
                  /\ rewritten' = Append(rewritten, response)
                  /\ described' =
                        IF raised THEN described
                        ELSE Append(described,
                                    [i \in 1..Len(page_images) |->
                                        [id |-> page_images[i].id,
                                         outcome |-> outcomes[i],
                                         block |-> blocks[i]]])
    /\ UNCHANGED <<pages_text, images, captions, matches, document, saved,
                   store, cost_vars, splice_vars>>

\* process_pdf when the exception of the rewrite reaches it, with a handler
\* around the page loop that returns the pages assembled so far
process_pdf_on_error_partial(contents, cost) ==
    [pc |-> "done", document |-> <<Document(contents, cost)>>]

\* process_pdf when the exception of the rewrite reaches it: neither
\* process_text_with_llm, _process_single_page nor the page loop has a
\* handler, so the call ends with the exception and nothing is returned
process_pdf_on_error(contents, cost) ==
    [pc |-> "failed", document |-> <<>>]

\* one iteration of the page loop in which chain.invoke of the language
\* model raises: the exception leaves process_pdf
RewriteFails ==
    /\ pc = "pages"
    /\ Len(all_page_contents) < Len(pages_text)
    /\ calls' = Append(calls, [model |-> "chat",
                               page |-> Len(all_page_contents) + 1, id |-> None])
    /\ pc' = process_pdf_on_error(all_page_contents, total_cost).pc
    /\ document' = process_pdf_on_error(all_page_contents, total_cost).document
    /\ UNCHANGED <<pages_text, images, captions, matches, all_page_contents,
                   total_cost, page_costs, rewritten, described, saved,
                   store, cost_vars, splice_vars>>

\* the return of process_pdf
ReturnDocument ==
    /\ pc = "pages"
    /\ Len(all_page_contents) = Len(pages_text)
    /\ document' = <<Document(all_page_contents, total_cost)>>
    /\ pc' = "done"
    /\ UNCHANGED <<pages_text, images, captions, matches, all_page_contents,
                   total_cost, calls, page_costs, rewritten, described, saved,
                   store, cost_vars, splice_vars>>

\* save_results on the returned Document
SaveResults ==
    /\ pc = "done"
    /\ saved' = <<save_results(document[1], OutputDir)>>
    /\ pc' = "saved"
    /\ UNCHANGED <<pages_text, images, captions, matches, all_page_contents,
                   total_cost, document, calls, page_costs, rewritten, described,
                   store, cost_vars, splice_vars>>

Next == StartProcessing \/ ProcessPage \/ RewriteFails \/ ReturnDocument \/ SaveResults

Spec == Init /\ [][Next]_vars

-----------------------------------------------------------------------------
(* Cost operations on their own *)

InitCost ==
    /\ pc = "cost"
    /\ heap \in [1..2 -> CostValues]
    /\ ret = 0
    /\ ops = <<>>
    /\ calls = <<>>
    /\ store = {}
    /\ PipelineIdle
    /\ MatchIdle
    /\ SpliceIdle

\* r = Cost.zero_cost()
ZeroCost ==
    /\ pc = "cost"
    /\ Len(ops) < MaxCostOps
    /\ LET r == zero_cost_obj(heap)
       IN  /\ heap' = r.heap
           /\ ret' = r.ret
           /\ ops' = Append(ops, [op |-> "zero", self |-> 0, other |-> 0, ret |-> r.ret])
    /\ UNCHANGED <<pc, calls, store, pipeline_vars, match_vars, splice_vars>>

\* r = a.add_cost(b) for two Cost objects a and b (possibly the same one)
AddCost ==
    /\ pc = "cost"
    /\ Len(ops) < MaxCostOps
    /\ \E self \in DOMAIN heap, other \in DOMAIN heap :
          LET r == add_cost_obj(heap, self, other)
          IN  /\ heap' = r.heap
              /\ ret' = r.ret
              /\ ops' = Append(ops, [op |-> "add", self |-> self, other |-> other,
                                     ret |-> r.ret])
    /\ UNCHANGED <<pc, calls, store, pipeline_vars, match_vars, splice_vars>>

NextCost == ZeroCost \/ AddCost

SpecCost == InitCost /\ [][NextCost]_vars

-----------------------------------------------------------------------------
(* match_figures_to_captions on its own *)

InitMatch ==
    /\ pc = "match"
    /\ images \in ImageLists(MaxImages, 2, GeometryKinds)
    /\ captions \in CaptionLists(MaxCaptions, 2, Polygons)
    /\ matches = <<>>
    /\ calls = <<>>
    /\ store = {}
    /\ PipelineIdle
    /\ CostIdle
    /\ SpliceIdle

Match ==
    /\ pc = "match"
    /\ matches' = match_figures_to_captions(images, captions)
    /\ pc' = "matched"
    /\ UNCHANGED <<images, captions, calls, store, pipeline_vars, cost_vars,
                   splice_vars>>

NextMatch == Match

SpecMatch == InitMatch /\ [][NextMatch]_vars

-----------------------------------------------------------------------------
(* insert_image_descriptions_in_text on its own *)

InitSplice ==
    /\ pc = "splice"
    /\ sp_text \in SpliceTexts
    /\ sp_images \in ImageLists(MaxImages, 1, ImageKinds)
    /\ sp_block = <<>>
    /\ sp_out = <<>>
    /\ calls = <<>>
    /\ store = {ExistingPath}
    /\ PipelineIdle
    /\ MatchIdle
    /\ CostIdle

Splice ==
    /\ pc = "splice"
    /\ \E outcomes \in OutcomeLists(sp_images, store) :
          /\ sp_block' = IF sp_images = <<>> THEN <<>>
                         ELSE page_descriptions(sp_images, store, outcomes)
          /\ sp_out' = insert_image_descriptions_in_text(sp_text, sp_images,
                                                         store, outcomes)
          /\ calls' = IF sp_images = <<>> THEN <<>>
                      ELSE vision_calls(sp_images, store, outcomes)
    /\ pc' = "spliced"
    /\ UNCHANGED <<sp_text, sp_images, store, pipeline_vars, match_vars, cost_vars>>

NextSplice == Splice

SpecSplice == InitSplice /\ [][NextSplice]_vars

-----------------------------------------------------------------------------
(* Properties *)

Returned == pc \in {"done", "saved"}

\* the component-wise sum of a list of costs, from (0, 0)
RECURSIVE SumInput(_)
SumInput(cs) == IF cs = <<>> THEN 0 ELSE Head(cs).input_token + SumInput(Tail(cs))

RECURSIVE SumOutput(_)
SumOutput(cs) == IF cs = <<>> THEN 0 ELSE Head(cs).output_token + SumOutput(Tail(cs))

\* C1: a returned Document has one entry per extracted page, and the entry at
\* 0-based index i (position i+1 here) has page_number i+1, whatever images
\* and captions were extracted.
C1_PageNumbers ==
    Returned =>
        /\ Len(document[1].contents) = Len(pages_text)
        /\ \A p \in 1..Len(document[1].contents) :
              document[1].contents[p].page_number = p

C1_Witness ==
    /\ Returned
    /\ Len(pages_text) = 2
    /\ Len(document[1].contents) = 2
    /\ images # <<>>
    /\ captions # <<>>

\* C2: the cost of the returned Document is the component-wise sum, from
\* (0,0), of the costs the text rewriter returned for the pages; the vision
\* model's calls add nothing to it.
C2_CostIsSumOfRewriteCosts ==
    Returned =>
        /\ Len(page_costs) = Len(pages_text)
        /\ document[1].cost.input_token = SumInput(page_costs)
        /\ document[1].cost.output_token = SumOutput(page_costs)

C2_Witness ==
    /\ Returned
    /\ Len(pages_text) = 2
    /\ document[1].cost.input_token > 0
    /\ document[1].cost.output_token > document[1].cost.input_token
    /\ \E i \in 1..Len(calls) : calls[i].model = "vision"

\* the operations of the log that are add_cost calls
AddOps == {i \in 1..Len(ops) : ops[i].op = "add"}

\* the objects made by zero_cost()
ZeroObjects == {ops[i].ret : i \in {j \in 1..Len(ops) : ops[j].op = "zero"}}

\* C3: a.add_cost(b) has the value of b.add_cost(a); a.add_cost(zero_cost())
\* has the value of a; add_cost returns a new Cost object and leaves the
\* fields of its operands (of every existing Cost) as they were.
C3_CostMonoid ==
    /\ [](\A i \in AddOps :
            /\ heap[ops[i].ret].input_token
                 = heap[ops[i].other].input_token + heap[ops[i].self].input_token
            /\ heap[ops[i].ret].output_token
                 = heap[ops[i].other].output_token + heap[ops[i].self].output_token
            /\ ops[i].other \in ZeroObjects => heap[ops[i].ret] = heap[ops[i].self])
    /\ [][ /\ \A a \in DOMAIN heap : a \in DOMAIN heap' /\ heap'[a] = heap[a]
           /\ ops' # ops => ret' \notin DOMAIN heap ]_vars

C3_Witness ==
    /\ \E i \in AddOps :
          /\ ops[i].other \in ZeroObjects
          /\ heap[ops[i].self].input_token > 0
    /\ \E i \in AddOps :
          /\ heap[ops[i].self].input_token > heap[ops[i].other].input_token
          /\ heap[ops[i].self].output_token < heap[ops[i].other].output_token

\* the midpoint of an element's polygon
Mid(el) == find_midpoint_from_corners(el.coordinates)

\* the captions (by position) on the image's page whose midpoint lies
\* strictly below the image's midpoint
Below(image) ==
    {k \in 1..Len(captions) :
        /\ captions[k].page_number = image.page_number
        /\ Mid(captions[k]).y * Mid(image).n > Mid(image).y * Mid(captions[k]).n}

\* caption j is strictly nearer to the image than caption k
Nearer(image, j, k) ==
    DistLess(calculate_distance(Mid(image), Mid(captions[j])),
             calculate_distance(Mid(image), Mid(captions[k])))

\* the first of the nearest captions below the image
Nearest(image) ==
    {k \in Below(image) :
        /\ \A j \in Below(image) : ~ Nearer(image, j, k)
        /\ \A j \in Below(image) : j < k => Nearer(image, k, j)}

\* C4: the result has one entry per image, in image order; an entry pairs
\* the image's id with the id of the nearest caption that is on the image's
\* page and strictly below it (the first such caption when distances tie),
\* and with None exactly when no caption on the page lies strictly below.
C4_NearestCaptionBelow ==
    pc = "matched" =>
        /\ Len(matches) = Len(images)
        /\ \A i \in 1..Len(images) :
              /\ matches[i][1] = images[i].id
              /\ (matches[i][2] = None) <=> (Below(images[i]) = {})
              /\ Below(images[i]) # {} =>
                    \E k \in Nearest(images[i]) : matches[i][2] = captions[k].id

C4_Witness ==
    /\ pc = "matched"
    /\ Len(images) = 2
    /\ matches[1][2] = None
    /\ \E j, k \in Below(images[2]) :
          /\ j < k
          /\ ~ Nearer(images[2], j, k)
          /\ ~ Nearer(images[2], k, j)
          /\ matches[2][2] = captions[j].id

\* C5: no two entries of the result for different images carry the same
\* caption id.
C5_CaptionClaimedOnce ==
    pc = "matched" =>
        \A i, j \in 1..Len(matches) :
            (i # j /\ matches[i][2] # None) => matches[i][2] # matches[j][2]

\* the lines of the splicer's text argument and those with a reference
SpLines == split_lines(sp_text)

SpRefLines == {i \in 1..Len(SpLines) : ref_search(SpLines[i])}

\* the joined description block of the call
SpBlock == join(<<"\n", "\n">>, sp_block)

\* the positions of s at which sub occurs
Occurrences(sub, s) ==
    {i \in 1..(Len(s) - Len(sub) + 1) : SubSeq(s, i, i + Len(sub) - 1) = sub}

\* the lines of the text with the block, between two blank lines, after line k
BlockAfterLine(k) ==
    SubSeq(SpLines, 1, k) \o <<<<>>>> \o split_lines(SpBlock) \o <<<<>>>>
        \o SubSeq(SpLines, k + 1, Len(SpLines))

Spliced == pc = "spliced" /\ sp_images # <<>>

\* C6: with at least one image and two or more lines that match the
\* reference pattern, the whole block is placed after the first matching
\* line only: it occurs once in the output and follows no later matching line.
C6_BlockAfterFirstReferenceOnly ==
    (Spliced /\ Cardinality(SpRefLines) >= 2) =>
        /\ Cardinality(Occurrences(SpBlock, sp_out)) = 1
        /\ \E k \in SpRefLines :
              /\ \A j \in SpRefLines : k <= j
              /\ split_lines(sp_out) = BlockAfterLine(k)

\* C7: with at least one image and exactly one matching line, the output
\* keeps the original lines in order, has the block right after the matching
\* line with one blank line before and one after it, and has the original
\* number of lines plus the block's number of lines plus 2.
C7_BlockAfterTheReference ==
    (Spliced /\ Cardinality(SpRefLines) = 1) =>
        /\ \A k \in SpRefLines : split_lines(sp_out) = BlockAfterLine(k)
        /\ Len(split_lines(sp_out)) = Len(SpLines) + Len(split_lines(SpBlock)) + 2

C7_Witness ==
    /\ Spliced
    /\ Len(sp_images) = 2
    /\ Len(SpLines) = 3
    /\ SpRefLines = {2}
    /\ Len(split_lines(sp_out)) > 8

\* C8: with at least one image and no matching line, the output is the
\* original text followed by the block under the heading '--- Images ---';
\* the heading is in the output in this case only.
C8_FallbackHeading ==
    pc = "spliced" =>
        /\ (sp_images # <<>> /\ SpRefLines = {}) =>
              /\ SubSeq(sp_out, 1, Len(sp_text)) = sp_text
              /\ SubSeq(sp_out, Len(sp_text) + 1, Len(sp_out))
                   = <<"\n", "\n", ImagesHeading, "\n">> \o SpBlock
        /\ ImagesHeading \in Range(sp_out) => (sp_images # <<>> /\ SpRefLines = {})

C8_Witness ==
    /\ Spliced
    /\ SpRefLines = {}
    /\ Len(SpLines) = 3
    /\ sp_text # <<>>
    /\ ImagesHeading \in Range(sp_out)

\* C9: a page without images has as its final text exactly the text the
\* rewriter returned for it, references or not, and no vision-model call is
\* made for that page.
C9_PageWithoutImages ==
    \A p \in 1..Len(all_page_contents) :
        (\A i \in 1..Len(images) : images[i].page_number # p) =>
            /\ all_page_contents[p].contents = rewritten[p]
            /\ \A c \in 1..Len(calls) :
                  calls[c].page = p => calls[c].model # "vision"

C9_Witness ==
    /\ Returned
    /\ Len(all_page_contents) = 2
    /\ \A i \in 1..Len(images) : images[i].page_number # 2
    /\ \E i \in 1..Len(split_lines(rewritten[2])) :
          ref_search(split_lines(rewritten[2])[i])
    /\ \E c \in 1..Len(calls) : calls[c].model = "vision"

\* the description field of a block: what follows its "[Description]: "
DescriptionFields(block) ==
    {SubSeq(block, i + 1, Len(block)) :
        i \in {j \in 1..Len(block) : block[j] = "[Description]: "}}

\* C10: the block of an image whose image_path is not empty and is not on
\* disk has the 'image not found' text as its description field, and the
\* vision model is not invoked for that image.
C10_MissingFile ==
    pc = "spliced" =>
        \A i \in 1..Len(sp_images) :
            (/\ sp_images[i].image_path # NonePath
             /\ sp_images[i].image_path # <<>>
             /\ sp_images[i].image_path \notin store) =>
                /\ DescriptionFields(sp_block[i]) = {<<"image not found">>}
                /\ \A c \in 1..Len(calls) : calls[c].id # sp_images[i].id

C10_Witness ==
    /\ pc = "spliced"
    /\ Len(sp_images) = 2
    /\ sp_images[1].image_path = MissingPath
    /\ sp_images[2].image_path = ExistingPath
    /\ calls # <<>>

\* the outcome met and the block built for image i of assembled page p
DescribedImage(p, i) == described[p][i]

\* the path of image i of assembled page p exists, so that its description
\* goes on to load, encode and invoke
Attempted(p, i) ==
    LET image == all_page_contents[p].images[i]
    IN  HasPath(image) /\ image.image_path \in store

\* C11: a failure of the vision model, or of loading or encoding the image,
\* never ends process_pdf: every page whose text was rewritten is assembled
\* (so the run is never left in its failed state by a description), the block
\* of the failing image carries the failure placeholder followed by the cause,
\* the blocks of the other images carry their descriptions and all blocks are
\* in the contents of their page, and the Document returned has all N pages.
C11_DescriptionFailureIsLocal ==
    /\ Len(rewritten) = Len(all_page_contents)
    /\ Len(described) = Len(all_page_contents)
    /\ \A p \in 1..Len(described) :
          /\ Len(described[p]) = Len(all_page_contents[p].images)
          /\ \A i \in 1..Len(described[p]) :
                /\ Attempted(p, i) =>
                      DescriptionFields(DescribedImage(p, i).block) =
                         {IF DescribedImage(p, i).outcome.kind = "ok"
                          THEN DescribedImage(p, i).outcome.text
                          ELSE FailedPrefix \o DescribedImage(p, i).outcome.text}
                /\ Occurrences(DescribedImage(p, i).block,
                               all_page_contents[p].contents) # {}
    /\ Returned => Len(document[1].contents) = Len(pages_text)

\* a two-page Document is returned although, on page 1, the description of
\* one image failed; the other image of the page was described
C11_Witness ==
    /\ Returned
    /\ Len(document[1].contents) = 2
    /\ Len(described) >= 1
    /\ Len(described[1]) = 2
    /\ Attempted(1, 1) /\ Attempted(1, 2)
    /\ described[1][1].outcome.kind \in {"load_error", "invoke_error"}
    /\ described[1][2].outcome.kind = "ok"

\* the language model was called for a page and gave no text back
FailedRewrite ==
    \E c \in 1..Len(calls) : calls[c].model = "chat" /\ calls[c].page > Len(rewritten)

\* C12: when the language-model call fails while rewriting page k, process_pdf
\* ends with the error and no Document exists, not even one of pages 1..k-1;
\* the failing call is the last model call, so no page after k is rewritten
\* or described, and nothing happens after the failure.
C12_RewriteFailureAborts ==
    /\ [](FailedRewrite =>
            /\ pc = "failed"
            /\ document = <<>>
            /\ saved = <<>>
            /\ calls[Len(calls)].model = "chat"
            /\ calls[Len(calls)].page = Len(all_page_contents) + 1
            /\ Len(rewritten) = Len(all_page_contents)
            /\ \A c \in 1..Len(calls) : calls[c].page <= calls[Len(calls)].page)
    /\ [][~FailedRewrite]_vars

\* the rewrite of page 2 of 2 failed after page 1, which has an image the
\* vision model described, had been assembled
C12_Witness ==
    /\ FailedRewrite
    /\ Len(pages_text) = 2
    /\ Len(all_page_contents) = 1
    /\ calls[Len(calls)].page = 2
    /\ \E c \in 1..Len(calls) : calls[c].model = "vision"

\* round(w * 1.3): the integer nearest to 13w/10, the even one at a tie
RoundedEstimate(w) ==
    LET q == (13 * w) \div 10
        r == (13 * w) % 10
    IN  IF r > 5 \/ (r = 5 /\ q % 2 = 1) THEN q + 1 ELSE q

\* C13: the cost of every rewrite has round(w * 1.3) as its input tokens, w
\* the number of whitespace-separated words of the page text, and
\* round(w * 1.3) as its output tokens, w the number of words of the text the
\* model returned (0 for an empty text, 3 for a text of 2 words).
C13_EstimateIsRounded ==
    \A p \in 1..Len(page_costs) :
        /\ page_costs[p].input_token = RoundedEstimate(word_count(pages_text[p]))
        /\ page_costs[p].output_token = RoundedEstimate(word_count(rewritten[p]))

\* the lines save_results is to write for one page: the heading with the
\* page's number, the lines of its contents, and a blank line
PageSectionLines(page) ==
    << <<"=== Page ">> \o int_str(page.page_number) \o <<" ===">> >>
        \o split_lines(page.contents)
        \o << <<>> >>

\* C14: the text save_results writes consists, for each page of the Document
\* in its order, of the heading line '=== Page N ===' with N the page's
\* page_number, the page's contents and a blank line, and of nothing else (an
\* empty file for a Document without pages); the paths returned are the text
\* file and the images directory under output_dir; the Document is unchanged.
C14_SavedFormat ==
    /\ [](saved # <<>> =>
            LET pages == document[1].contents
            IN  /\ pages = <<>> => saved[1].written = <<>>
                /\ pages # <<>> =>
                      split_lines(saved[1].written)
                         = Flatten([p \in 1..Len(pages) |-> PageSectionLines(pages[p])])
                /\ saved[1].text_file = OutputDir \o <<"enhanced_processed_text.txt">>
                /\ saved[1].images_dir = OutputDir \o <<"images">>)
    /\ [][saved' # saved => document' = document /\ document # <<>>]_vars

\* a two-page Document was saved whose first page holds a block of image
\* descriptions
C14_Witness ==
    /\ pc = "saved"
    /\ saved # <<>>
    /\ Len(document[1].contents) = 2
    /\ document[1].contents[1].images # <<>>
    /\ Len(split_lines(document[1].contents[1].contents)) > 1

\* the places <<p, j>> of the returned Document holding extracted image i
PlacesOfImage(i) ==
    {pl \in UNION {{<<p, j>> : j \in 1..Len(document[1].contents[p].images)} :
                      p \in 1..Len(document[1].contents)} :
        document[1].contents[pl[1]].images[pl[2]] = images[i]}

\* the position in the extracted list of the image at place j of page p
ExtractionIndex(p, j) ==
    CHOOSE i \in 1..Len(images) : images[i] = document[1].contents[p].images[j]

\* C15: in the returned Document every extracted image is in the images of
\* exactly one page, the page whose page_number is the page number recorded
\* on the image, whether it was matched with a caption or with none; the
\* images of a page are in extraction order; every record in the images of a
\* page is an extracted image, none is a caption, and a page has no other
\* field that could hold one.
C15_ImagesPartitionedByPage ==
    Returned =>
        LET pages == document[1].contents
        IN  /\ \A i \in 1..Len(images) :
                  /\ Cardinality(PlacesOfImage(i)) = 1
                  /\ \A pl \in PlacesOfImage(i) :
                        pages[pl[1]].page_number = images[i].page_number
            /\ \A p \in 1..Len(pages) :
                  /\ DOMAIN pages[p] = {"contents", "page_number", "images"}
                  /\ \A j \in 1..Len(pages[p].images) :
                        /\ pages[p].images[j] \in Range(images)
                        /\ pages[p].images[j].category = "Image"
                        /\ pages[p].images[j].id \notin {captions[c].id : c \in 1..Len(captions)}
                  /\ \A j, k \in 1..Len(pages[p].images) :
                        j < k => ExtractionIndex(p, j) < ExtractionIndex(p, k)

\* a returned Document of two pages with two images on one page, of which the
\* matcher paired one with a caption and the other with none
C15_Witness ==
    /\ Returned
    /\ Len(document[1].contents) = 2
    /\ Len(captions) >= 1
    /\ \E p \in 1..2 : Len(document[1].contents[p].images) = 2
    /\ \E m \in 1..Len(matches) : matches[m][2] # None
    /\ \E m \in 1..Len(matches) : matches[m][2] = None

\* the image at place i of assembled page p was loaded and encoded
Loaded(p, i) == DescribedImage(p, i).outcome.kind # "load_error"

\* one vision call for each image of page p from place i on that has an
\* existing image_path (and, with loaded_only, was loaded and encoded)
RECURSIVE ExpectedVisionCalls(_, _, _)
ExpectedVisionCalls(p, i, loaded_only) ==
    IF i > Len(all_page_contents[p].images) THEN <<>>
    ELSE (IF Attempted(p, i) /\ (loaded_only => Loaded(p, i))
          THEN <<[model |-> "vision", page |-> p,
                  id |-> all_page_contents[p].images[i].id]>>
          ELSE <<>>)
         \o ExpectedVisionCalls(p, i + 1, loaded_only)

\* the rewrite of page 1, the descriptions of its images, the rewrite of
\* page 2, and so on to the last page
ExpectedCalls(loaded_only) ==
    Flatten([p \in 1..Len(all_page_contents) |->
                <<[model |-> "chat", page |-> p, id |-> None]>>
                    \o ExpectedVisionCalls(p, 1, loaded_only)])

\* C16, as stated: in every successful run the model invocations are the
\* rewrite of page 1, then one vision call for each image of page 1 that has
\* an existing image_path, in input order, then the rewrite of page 2, and so
\* on to page N.
C16_OncePerExistingPath ==
    Returned => calls = ExpectedCalls(FALSE)

\* C16, amended: in every successful run the model invocations are the
\* rewrite of page 1, then one vision call for each image of page 1 that has
\* an existing image_path and was loaded and encoded, in input order, then the
\* rewrite of page 2, and so on to page N: the language model is invoked once
\* per page, the vision model once per such image and never for an image
\* whose loading or encoding failed, however many lines of the page text
\* match the reference pattern.
C16_OncePerLoadedImage ==
    Returned => calls = ExpectedCalls(TRUE)

\* a successful run in which the text of page 1 has two reference lines and
\* page 1 has two images with an existing image_path: the first went to the
\* vision model, the second could not be loaded
C16_Witness ==
    /\ Returned
    /\ Len(all_page_contents) = 2
    /\ Len(all_page_contents[1].images) = 2
    /\ Attempted(1, 1) /\ Attempted(1, 2)
    /\ Loaded(1, 1) /\ ~Loaded(1, 2)
    /\ Cardinality({i \in 1..Len(split_lines(rewritten[1])) :
                       ref_search(split_lines(rewritten[1])[i])}) >= 2
    /\ Len(calls) = 3

=============================================================================
